---- MODULE Spec2Model ----
(***************************************************************************)
(* Model of the union-find structure DisjointSets<T> (disjoint_sets.rs),   *)
(* its nodes (node.rs) and the UnionFind trait results (union_find.rs).    *)
(* Under Spec every public method is one atomic action (the methods take   *)
(* &mut self or &self and run to completion).  Under SpecSteps one caller  *)
(* runs union, same_set and set_size one node-field read or write at a     *)
(* time; under SpecRace two callers do, interleaved, which the unsafe Sync *)
(* impl together with the Cell fields of Node leaves possible.             *)
(***************************************************************************)
EXTENDS Integers, FiniteSets, Sequences, TLC

\* Number of items a caller registers.
MaxItems == 4

\* The item values of type T passed to the calls; the last one is never
\* registered.
Items == 1..(MaxItems + 1)

VARIABLES
    nodes,       \* DisjointSets.nodes: HashMap<Id, Node<Id>>
    item_to_id,  \* DisjointSets.item_to_id: HashMap<T, Id>
    next_id,     \* DisjointSets.next_id: Id
    part,        \* history: the reference partition (set of blocks of items)
    last,        \* history: the last call made, its arguments and its result
    run          \* the calls in flight: each caller's frame, and whether two
                 \* calls have ever been in flight together

vars == <<nodes, item_to_id, next_id, part, last, run>>

----------------------------------------------------------------------------
(* node.rs *)

\* Variant of NodeNew: the rank starts at 0, as in height-based union by rank.
NodeNew_rank_zero(item) == [item |-> item, parent |-> item, rank |-> 0]

\* Node::new: parent is the item itself, rank is 1.
NodeNew(item) == [item |-> item, parent |-> item, rank |-> 1]

\* Node::is_representative
is_representative(n) == n.item = n.parent

----------------------------------------------------------------------------
(* disjoint_sets.rs: private helpers *)

\* A HashMap as a function: insert adds or overwrites one key.
MapInsert(m, k, v) == [q \in (DOMAIN m) \cup {k} |-> IF q = k THEN v ELSE m[q]]

RECURSIVE find_repr_inner(_, _)

\* Variant of find_repr_inner: no recursion, the parent is taken for the root.
find_repr_inner_one_hop(ns, id) ==
    IF is_representative(ns[id])
    THEN [nodes |-> ns, repr |-> ns[id].item]
    ELSE [nodes |-> ns, repr |-> ns[id].parent]

\* Variant of find_repr_inner: the compressed node takes over the rank of the
\* representative along with the parent.
find_repr_inner_copies_rank(ns, id) ==
    IF is_representative(ns[id])
    THEN [nodes |-> ns, repr |-> ns[id].item]
    ELSE LET r == find_repr_inner(ns, ns[id].parent)
         IN  [nodes |-> [r.nodes EXCEPT ![id].parent = r.repr,
                                        ![id].rank = r.nodes[r.repr].rank],
              repr  |-> r.repr]

\* Variant of find_repr_inner: the set_parent call is missing.
find_repr_inner_no_compression(ns, id) ==
    IF is_representative(ns[id])
    THEN [nodes |-> ns, repr |-> ns[id].item]
    ELSE find_repr_inner(ns, ns[id].parent)

\* find_repr_inner: returns the representative and the node map after the
\* set_parent calls made while the recursion unwinds.
find_repr_inner(ns, id) ==
    IF is_representative(ns[id])
    THEN [nodes |-> ns, repr |-> ns[id].item]
    ELSE LET r == find_repr_inner(ns, ns[id].parent)
         IN  [nodes |-> [r.nodes EXCEPT ![id].parent = r.repr],
              repr  |-> r.repr]

\* find_repr_id
find_repr_id(ns, id) == find_repr_inner(ns, id)

----------------------------------------------------------------------------
(* disjoint_sets.rs: the structure and its public methods.  A method is an  *)
(* operator from the structure (and the arguments) to the structure after   *)
(* the call and the returned Result.                                        *)

\* The DisjointSets value held in the variables.
Self == [nodes |-> nodes, item_to_id |-> item_to_id, next_id |-> next_id]

\* DisjointSets::new
new == [nodes |-> << >>, item_to_id |-> << >>, next_id |-> 0]

\* What a call returns: the structure afterwards, Ok or the Error variant,
\* and the payload of Ok (bval for Result<bool>, nval for usize).
Return(s, result, bval, nval) ==
    [self |-> s, result |-> result, bval |-> bval, nval |-> nval]

\* contains (&self)
contains(s, item) == Return(s, "Ok", item \in DOMAIN s.item_to_id, 0)

\* set_size
set_size(s, item) ==
    IF item \notin DOMAIN s.item_to_id
    THEN Return(s, "ItemNotFound", FALSE, 0)
    ELSE LET id == s.item_to_id[item]
             f  == find_repr_id(s.nodes, id)
         IN  Return([s EXCEPT !.nodes = f.nodes], "Ok", FALSE,
                    f.nodes[f.repr].rank)

\* Variant of num_sets: the filter on is_representative is missing.
num_sets_no_filter(s) ==
    [self |-> s, result |-> "Ok", bval |-> FALSE,
     nval |-> Cardinality(DOMAIN s.nodes)]

\* num_sets (&self)
num_sets(s) ==
    Return(s, "Ok", FALSE,
           Cardinality({k \in DOMAIN s.nodes : is_representative(s.nodes[k])}))

\* num_items (&self)
num_items(s) == Return(s, "Ok", FALSE, Cardinality(DOMAIN s.item_to_id))

\* same_set
same_set(s, x, y) ==
    IF x \notin DOMAIN s.item_to_id
    THEN Return(s, "ItemNotFound", FALSE, 0)
    ELSE IF y \notin DOMAIN s.item_to_id
    THEN Return(s, "ItemNotFound", FALSE, 0)
    ELSE LET fx == find_repr_id(s.nodes, s.item_to_id[x])
             fy == find_repr_id(fx.nodes, s.item_to_id[y])
         IN  Return([s EXCEPT !.nodes = fy.nodes], "Ok", fx.repr = fy.repr, 0)

\* Variant of make_set: next_id is taken and advanced before the check.
make_set_increment_first(s, item) ==
    LET id == s.next_id
        t  == [s EXCEPT !.next_id = id + 1]
    IN  IF item \in DOMAIN s.item_to_id
        THEN [self |-> t, result |-> "ItemExists", bval |-> FALSE, nval |-> 0]
        ELSE [self |-> [nodes      |-> MapInsert(s.nodes, id, NodeNew(id)),
                        item_to_id |-> MapInsert(s.item_to_id, item, id),
                        next_id    |-> id + 1],
              result |-> "Ok", bval |-> FALSE, nval |-> 0]

\* Variant of make_set: the id counter is not advanced.
make_set_no_increment(s, item) ==
    IF contains(s, item).bval
    THEN Return(s, "ItemExists", FALSE, 0)
    ELSE LET id == s.next_id
         IN  Return([nodes      |-> MapInsert(s.nodes, id, NodeNew(id)),
                     item_to_id |-> MapInsert(s.item_to_id, item, id),
                     next_id    |-> id],
                    "Ok", FALSE, 0)

\* make_set
make_set(s, item) ==
    IF contains(s, item).bval
    THEN Return(s, "ItemExists", FALSE, 0)
    ELSE LET id == s.next_id
         IN  Return([nodes      |-> MapInsert(s.nodes, id, NodeNew(id)),
                     item_to_id |-> MapInsert(s.item_to_id, item, id),
                     next_id    |-> id + 1],
                    "Ok", FALSE, 0)

\* Variant of union_link: height-based ranks (the rank grows by one on a tie).
union_link_max_plus_one(ns, x_repr, y_repr) ==
    LET x_node == ns[x_repr]
        y_node == ns[y_repr]
    IN  IF x_node.rank < y_node.rank
        THEN [ns EXCEPT ![x_repr].parent = y_repr]
        ELSE [ns EXCEPT ![y_repr].parent = x_repr,
                        ![x_repr].rank = IF x_node.rank = y_node.rank
                                         THEN x_node.rank + 1
                                         ELSE x_node.rank]

\* Variant of union_link: the first branch sets the rank of the node it has
\* just re-parented.
union_link_rank_on_child(ns, x_repr, y_repr) ==
    LET x_node   == ns[x_repr]
        y_node   == ns[y_repr]
        rank_sum == x_node.rank + y_node.rank
    IN  IF x_node.rank < y_node.rank
        THEN [ns EXCEPT ![x_repr].parent = y_repr, ![x_repr].rank = rank_sum]
        ELSE [ns EXCEPT ![y_repr].parent = x_repr, ![x_repr].rank = rank_sum]

\* Variant of union_link: the first branch does not set the rank.
union_link_no_rank_update(ns, x_repr, y_repr) ==
    LET x_node   == ns[x_repr]
        y_node   == ns[y_repr]
        rank_sum == x_node.rank + y_node.rank
    IN  IF x_node.rank < y_node.rank
        THEN [ns EXCEPT ![x_repr].parent = y_repr]
        ELSE [ns EXCEPT ![y_repr].parent = x_repr, ![x_repr].rank = rank_sum]

\* Variant of union_link: the else is missing, the second branch always runs.
union_link_missing_else(ns, x_repr, y_repr) ==
    LET x_node   == ns[x_repr]
        y_node   == ns[y_repr]
        rank_sum == x_node.rank + y_node.rank
        first    == IF x_node.rank < y_node.rank
                    THEN [ns EXCEPT ![x_repr].parent = y_repr,
                                    ![y_repr].rank = rank_sum]
                    ELSE ns
    IN  [first EXCEPT ![y_repr].parent = x_repr, ![x_repr].rank = rank_sum]

\* Variant of union_link: the comparison is <=, a tie re-parents x's root.
union_link_tie_to_y(ns, x_repr, y_repr) ==
    LET x_node   == ns[x_repr]
        y_node   == ns[y_repr]
        rank_sum == x_node.rank + y_node.rank
    IN  IF x_node.rank <= y_node.rank
        THEN [ns EXCEPT ![x_repr].parent = y_repr, ![y_repr].rank = rank_sum]
        ELSE [ns EXCEPT ![y_repr].parent = x_repr, ![x_repr].rank = rank_sum]

\* Variant of union_link: the comparison is reversed, the larger tree goes
\* under the smaller.
union_link_larger_under_smaller(ns, x_repr, y_repr) ==
    LET x_node   == ns[x_repr]
        y_node   == ns[y_repr]
        rank_sum == x_node.rank + y_node.rank
    IN  IF x_node.rank > y_node.rank
        THEN [ns EXCEPT ![x_repr].parent = y_repr, ![y_repr].rank = rank_sum]
        ELSE [ns EXCEPT ![y_repr].parent = x_repr, ![x_repr].rank = rank_sum]

\* union, lines 91-101: link the two distinct roots, by rank.
union_link(ns, x_repr, y_repr) ==
    LET x_node   == ns[x_repr]
        y_node   == ns[y_repr]
        rank_sum == x_node.rank + y_node.rank
    IN  IF x_node.rank < y_node.rank
        THEN [ns EXCEPT ![x_repr].parent = y_repr, ![y_repr].rank = rank_sum]
        ELSE [ns EXCEPT ![y_repr].parent = x_repr, ![x_repr].rank = rank_sum]

\* Variant of union: the nodes of the items are linked, not their roots.
union_links_items(s, x, y) ==
    IF x \notin DOMAIN s.item_to_id \/ y \notin DOMAIN s.item_to_id
    THEN [self |-> s, result |-> "ItemNotFound", bval |-> FALSE, nval |-> 0]
    ELSE LET fx == find_repr_id(s.nodes, s.item_to_id[x])
             fy == find_repr_id(fx.nodes, s.item_to_id[y])
         IN  [self |-> [s EXCEPT !.nodes =
                          IF fx.repr = fy.repr THEN fy.nodes
                          ELSE union_link(fy.nodes, s.item_to_id[x],
                                          s.item_to_id[y])],
              result |-> "Ok", bval |-> FALSE, nval |-> 0]

\* Variant of union: x is resolved to its representative before y is looked up.
union_find_before_lookup(s, x, y) ==
    IF x \notin DOMAIN s.item_to_id
    THEN [self |-> s, result |-> "ItemNotFound", bval |-> FALSE, nval |-> 0]
    ELSE LET fx == find_repr_id(s.nodes, s.item_to_id[x])
         IN  IF y \notin DOMAIN s.item_to_id
             THEN [self |-> [s EXCEPT !.nodes = fx.nodes],
                   result |-> "ItemNotFound", bval |-> FALSE, nval |-> 0]
             ELSE LET fy == find_repr_id(fx.nodes, s.item_to_id[y])
                  IN  [self |-> [s EXCEPT !.nodes =
                                   IF fx.repr = fy.repr THEN fy.nodes
                                   ELSE union_link(fy.nodes, fx.repr, fy.repr)],
                       result |-> "Ok", bval |-> FALSE, nval |-> 0]

\* Variant of union: the early return on equal representatives is missing.
union_no_early_return(s, x, y) ==
    IF x \notin DOMAIN s.item_to_id \/ y \notin DOMAIN s.item_to_id
    THEN [self |-> s, result |-> "ItemNotFound", bval |-> FALSE, nval |-> 0]
    ELSE LET fx == find_repr_id(s.nodes, s.item_to_id[x])
             fy == find_repr_id(fx.nodes, s.item_to_id[y])
         IN  [self |-> [s EXCEPT !.nodes =
                          union_link(fy.nodes, fx.repr, fy.repr)],
              result |-> "Ok", bval |-> FALSE, nval |-> 0]

\* union
union(s, x, y) ==
    IF x \notin DOMAIN s.item_to_id
    THEN Return(s, "ItemNotFound", FALSE, 0)
    ELSE IF y \notin DOMAIN s.item_to_id
    THEN Return(s, "ItemNotFound", FALSE, 0)
    ELSE LET fx == find_repr_id(s.nodes, s.item_to_id[x])
             fy == find_repr_id(fx.nodes, s.item_to_id[y])
         IN  IF fx.repr = fy.repr
             THEN Return([s EXCEPT !.nodes = fy.nodes], "Ok", FALSE, 0)
             ELSE Return([s EXCEPT !.nodes =
                                 union_link(fy.nodes, fx.repr, fy.repr)],
                         "Ok", FALSE, 0)

----------------------------------------------------------------------------
(* History: the reference partition and the record of the last call *)

\* The block of the reference partition p that holds item x.
BlockOf(p, x) == CHOOSE b \in p : x \in b

\* The smallest equivalence relation that contains p and the pair (x, y).
Join(p, x, y) ==
    (p \ {BlockOf(p, x), BlockOf(p, y)}) \cup {BlockOf(p, x) \cup BlockOf(p, y)}

\* The record of a call: its name, its arguments, what it returned, and the
\* number of blocks the reference partition had when it was made.
Call(op, x, y, r) ==
    [op |-> op, x |-> x, y |-> y,
     result |-> r.result, bval |-> r.bval, nval |-> r.nval,
     blocks |-> Cardinality(part)]

\* The callers of the structure: the threads that share it.
Threads == {1, 2}

\* The frame of a caller that is in no call.  In a call: op is the method,
\* pc the place in its code, x and y its arguments, arg the argument whose
\* find is running, stack the nodes of the find_repr_inner activations, repr
\* the representative the innermost activation returned, x_repr the result
\* of the first find, rank_sum and less the locals of union.
IdleFrame ==
    [op |-> "idle", pc |-> "idle", x |-> 0, y |-> 0, arg |-> "x",
     stack |-> <<>>, repr |-> 0, x_repr |-> 0, rank_sum |-> 0, cmp |-> 0,
     less |-> FALSE]

\* No call is in flight and none has ever overlapped another.
NoCalls == [frame |-> [p \in Threads |-> IdleFrame], overlapped |-> FALSE]

\* The call stores the structure it returns.
Store(r) ==
    /\ nodes' = r.self.nodes
    /\ item_to_id' = r.self.item_to_id
    /\ next_id' = r.self.next_id
    /\ run' = run

----------------------------------------------------------------------------
(* The state machine: a caller makes any call with any arguments *)

Init ==
    /\ nodes = new.nodes
    /\ item_to_id = new.item_to_id
    /\ next_id = new.next_id
    /\ part = {}
    /\ last = Call("new", 0, 0, Return(new, "Ok", FALSE, 0))
    /\ run = NoCalls

Contains(item) ==
    LET r == contains(Self, item)
    IN  /\ Store(r)
        /\ part' = part
        /\ last' = Call("contains", item, 0, r)

\* Items are opaque to the structure (T: Eq + Hash), so the k-th item a
\* caller registers is named k: a call passes a registered item or the next
\* new one, up to MaxItems.  Items above that are the never registered
\* arguments of the other calls.
MakeSet(item) ==
    LET r == make_set(Self, item)
    IN  /\ item <= Cardinality(DOMAIN item_to_id) + 1
        /\ item <= MaxItems
        /\ Store(r)
        /\ part' = IF r.result = "Ok" THEN part \cup {{item}} ELSE part
        /\ last' = Call("make_set", item, 0, r)

SameSet(x, y) ==
    LET r == same_set(Self, x, y)
    IN  /\ Store(r)
        /\ part' = part
        /\ last' = Call("same_set", x, y, r)

Union(x, y) ==
    LET r == union(Self, x, y)
    IN  /\ Store(r)
        /\ part' = IF r.result = "Ok" THEN Join(part, x, y) ELSE part
        /\ last' = Call("union", x, y, r)

SetSize(item) ==
    LET r == set_size(Self, item)
    IN  /\ Store(r)
        /\ part' = part
        /\ last' = Call("set_size", item, 0, r)

NumSets ==
    LET r == num_sets(Self)
    IN  /\ Store(r)
        /\ part' = part
        /\ last' = Call("num_sets", 0, 0, r)

NumItems ==
    LET r == num_items(Self)
    IN  /\ Store(r)
        /\ part' = part
        /\ last' = Call("num_items", 0, 0, r)

Next ==
    \/ \E item \in Items : Contains(item)
    \/ \E item \in Items : MakeSet(item)
    \/ \E x \in Items, y \in Items : SameSet(x, y)
    \/ \E x \in Items, y \in Items : Union(x, y)
    \/ \E item \in Items : SetSize(item)
    \/ NumSets
    \/ NumItems

Spec == Init /\ [][Next]_vars

----------------------------------------------------------------------------
(* Vocabulary of the properties *)

\* The items registered so far.
Registered == DOMAIN item_to_id

\* The structure after the step.
SelfNext == [nodes |-> nodes', item_to_id |-> item_to_id', next_id |-> next_id']

\* The ids of the representatives of structure s.
Representatives(s) == {k \in DOMAIN s.nodes : is_representative(s.nodes[k])}

\* The id of the representative of the registered item x in structure s.
ReprOf(s, x) == find_repr_id(s.nodes, s.item_to_id[x]).repr

\* The registered items that same_set reports to be with x in structure s.
SetOf(s, x) == {y \in DOMAIN s.item_to_id : same_set(s, x, y).bval}

\* The partition of the registered items that same_set reports.
PartitionOf(s) == {SetOf(s, x) : x \in DOMAIN s.item_to_id}

\* The number of parent hops from node id to its representative.
RECURSIVE Depth(_, _)
Depth(ns, id) ==
    IF is_representative(ns[id]) THEN 0 ELSE 1 + Depth(ns, ns[id].parent)

\* The sum of the ranks of the nodes ks.
RECURSIVE SumRank(_, _)
SumRank(ns, ks) ==
    IF ks = {} THEN 0
    ELSE LET k == CHOOSE q \in ks : TRUE
         IN  ns[k].rank + SumRank(ns, ks \ {k})

----------------------------------------------------------------------------
(* Properties *)

\* C1: for all registered x and y, same_set(x, y) is Ok(true) exactly when x
\* and y are in the same block of the reference partition (the smallest
\* equivalence containing every pair a successful union was called with);
\* this holds of the value every same_set call returned, too.
C1_SameSetIsReferencePartition ==
    /\ \A x \in Registered : \A y \in Registered :
          /\ same_set(Self, x, y).result = "Ok"
          /\ same_set(Self, x, y).bval <=> (BlockOf(part, x) = BlockOf(part, y))
    /\ \A x \in Registered : same_set(Self, x, x).bval
    /\ (last.op = "same_set" /\ last.result = "Ok")
          => (last.bval <=> (BlockOf(part, last.x) = BlockOf(part, last.y)))

\* A same_set call on two different items of one set of at least three has
\* returned true while another set exists.
C1_Witness ==
    /\ last.op = "same_set" /\ last.result = "Ok" /\ last.bval
    /\ last.x # last.y
    /\ Cardinality(BlockOf(part, last.x)) >= 3
    /\ Cardinality(part) >= 2

\* C2: for every registered x, set_size(x) is the number of registered items
\* in the same set as x, the cardinality of x's block, and the rank stored
\* on x's representative; this holds of the value every call returned, too.
C2_SetSizeIsCardinality ==
    /\ \A x \in Registered :
          /\ set_size(Self, x).result = "Ok"
          /\ set_size(Self, x).nval = Cardinality(SetOf(Self, x))
          /\ set_size(Self, x).nval = Cardinality(BlockOf(part, x))
          /\ set_size(Self, x).nval = nodes[ReprOf(Self, x)].rank
    /\ (last.op = "set_size" /\ last.result = "Ok")
          => /\ last.nval = Cardinality(BlockOf(part, last.x))
             /\ last.nval = nodes[ReprOf(Self, last.x)].rank

\* A set_size call on an item that is not its set's representative has
\* returned 3 or more.
C2_Witness ==
    /\ last.op = "set_size" /\ last.result = "Ok" /\ last.nval >= 3
    /\ ReprOf(Self, last.x) # item_to_id[last.x]

\* C3: num_sets() <= num_items(), and the ranks of the representatives sum
\* to num_items().
C3_RankSumIsNumItems ==
    /\ num_sets(Self).nval <= num_items(Self).nval
    /\ SumRank(nodes, Representatives(Self)) = num_items(Self).nval

\* After a union, two sets of different sizes above 1 exist.
C3_Witness ==
    /\ last.op = "union" /\ last.result = "Ok"
    /\ num_sets(Self).nval < num_items(Self).nval
    /\ \E r1 \in Representatives(Self) : \E r2 \in Representatives(Self) :
          nodes[r1].rank >= 2 /\ nodes[r2].rank = 1

\* The step is the call op and it returned result.
Returned(op, result) == last'.op = op /\ last'.result = result

\* C4: num_sets() is the number of blocks of the partition; it is 0 at the
\* start, a successful make_set adds 1, a union of two items of different
\* sets subtracts 1, and every other call leaves it as it is.
C4_NumSetsCountsBlocks ==
    /\ num_sets(Self).nval = 0
    /\ [](num_sets(Self).nval = Cardinality(part))
    /\ [][ num_sets(SelfNext).nval =
             IF Returned("make_set", "Ok")
             THEN num_sets(Self).nval + 1
             ELSE IF /\ Returned("union", "Ok")
                     /\ ~same_set(Self, last'.x, last'.y).bval
             THEN num_sets(Self).nval - 1
             ELSE num_sets(Self).nval ]_vars

\* A union has merged two sets and left two sets.
C4_Witness ==
    /\ last.op = "union" /\ last.result = "Ok" /\ last.x # last.y
    /\ num_sets(Self).nval = 2
    /\ num_items(Self).nval = 4

\* C5: after a successful union(x, y), same_set(x, y) is true, and two items
\* that same_set reports together are reported together after every step (a
\* step that leaves the structure as it is keeps every answer; each pair of
\* different items is taken once).
C5_SetsNeverSplit ==
    /\ []((last.op = "union" /\ last.result = "Ok")
             => same_set(Self, last.x, last.y).bval)
    /\ [][ \/ SelfNext = Self
           \/ \A x \in Registered : \A y \in {w \in Registered : w > x} :
                 same_set(Self, x, y).bval => same_set(SelfNext, x, y).bval ]_vars

\* A union has merged the sets of two different items, neither of which is
\* the representative of the merged set.
C5_Witness ==
    /\ last.op = "union" /\ last.result = "Ok" /\ last.x # last.y
    /\ ReprOf(Self, last.x) # item_to_id[last.x]
    /\ ReprOf(Self, last.y) # item_to_id[last.y]

\* C6: make_set(x) for an unregistered x succeeds; after it x is contained,
\* is its own representative and in the same set as no other item, has
\* set_size 1, num_items() and num_sets() have grown by 1, and the sets and
\* sizes of the items registered before are as they were.
C6_MakeSetCreatesSingleton ==
    /\ [](\A x \in Items \ Registered : make_set(Self, x).result = "Ok")
    /\ [][ Returned("make_set", "Ok") =>
             LET x == last'.x
                 s == Self
                 t == SelfNext
             IN  /\ ~contains(s, x).bval
                 /\ contains(t, x).bval
                 /\ ReprOf(t, x) = t.item_to_id[x]
                 /\ \A y \in DOMAIN t.item_to_id :
                       same_set(t, x, y).bval <=> (y = x)
                 /\ set_size(t, x).nval = 1
                 /\ num_items(t).nval = num_items(s).nval + 1
                 /\ num_sets(t).nval = num_sets(s).nval + 1
                 /\ \A a \in DOMAIN s.item_to_id :
                       /\ contains(t, a).bval
                       /\ SetOf(t, a) = SetOf(s, a)
                       /\ set_size(t, a).nval = set_size(s, a).nval ]_vars

\* make_set has registered an item next to a set of two or more items.
C6_Witness ==
    /\ last.op = "make_set" /\ last.result = "Ok"
    /\ \E a \in Registered : set_size(Self, a).nval >= 2
    /\ set_size(Self, last.x).nval = 1

\* C7: make_set(x) on a registered x returns ItemExists and leaves nodes,
\* item_to_id and next_id (hence num_items() and num_sets()) as they were.
C7_MakeSetExistsUnchanged ==
    /\ [](\A x \in Registered :
             /\ make_set(Self, x).result = "ItemExists"
             /\ make_set(Self, x).self = Self)
    /\ [][ Returned("make_set", "ItemExists") =>
             /\ last'.x \in Registered
             /\ nodes' = nodes /\ item_to_id' = item_to_id
             /\ next_id' = next_id
             /\ num_items(SelfNext).nval = num_items(Self).nval
             /\ num_sets(SelfNext).nval = num_sets(Self).nval ]_vars

\* make_set has returned ItemExists for an item that is not a representative.
C7_Witness ==
    /\ last.op = "make_set" /\ last.result = "ItemExists"
    /\ ReprOf(Self, last.x) # item_to_id[last.x]

\* C8: same_set, union and set_size return ItemNotFound whenever an argument,
\* in either position, is not registered, and then nodes, item_to_id and
\* next_id are as they were (no path is compressed, no item is added).
C8_NotFoundUnchanged ==
    /\ [](\A x \in Items : \A y \in Items :
             (x \notin Registered \/ y \notin Registered) =>
                /\ same_set(Self, x, y).result = "ItemNotFound"
                /\ same_set(Self, x, y).self = Self
                /\ union(Self, x, y).result = "ItemNotFound"
                /\ union(Self, x, y).self = Self)
    /\ [](\A x \in Items \ Registered :
             /\ set_size(Self, x).result = "ItemNotFound"
             /\ set_size(Self, x).self = Self)
    /\ [][ last'.result = "ItemNotFound" =>
             /\ last'.op \in {"same_set", "union", "set_size"}
             /\ last'.x \notin Registered
                  \/ (last'.op # "set_size" /\ last'.y \notin Registered)
             /\ nodes' = nodes /\ item_to_id' = item_to_id
             /\ next_id' = next_id /\ part' = part ]_vars

\* union has returned ItemNotFound for a registered first argument that is
\* two hops from its representative, and an unregistered second argument.
C8_Witness ==
    /\ last.op = "union" /\ last.result = "ItemNotFound"
    /\ last.x \in Registered /\ last.y \notin Registered
    /\ Depth(nodes, item_to_id[last.x]) >= 2

\* C9: for all registered x and y, union(x, y) and union(y, x) give the same
\* partition, the same set_size of every item and the same num_sets().  (The
\* statement is symmetric in x and y, and for x = y the two calls are one;
\* equal structures give equal answers.)
C9_UnionCommutes ==
    \A x \in Registered : \A y \in {w \in Registered : w > x} :
        LET a == union(Self, x, y)
            b == union(Self, y, x)
        IN  /\ a.result = "Ok" /\ b.result = "Ok"
            /\ \/ a.self = b.self
               \/ /\ PartitionOf(a.self) = PartitionOf(b.self)
                  /\ \A z \in Registered :
                        set_size(a.self, z).nval = set_size(b.self, z).nval
                  /\ num_sets(a.self).nval = num_sets(b.self).nval

\* After a union there are two sets of equal rank, where the argument order
\* decides the surviving representative, and two sets of different rank.
C9_Witness ==
    /\ last.op = "union" /\ last.result = "Ok"
    /\ \E x \in Registered : \E y \in Registered :
          /\ ~same_set(Self, x, y).bval
          /\ ReprOf(union(Self, x, y).self, x) # ReprOf(union(Self, y, x).self, x)
    /\ \E x \in Registered : \E y \in Registered :
          /\ ~same_set(Self, x, y).bval
          /\ set_size(Self, x).nval < set_size(Self, y).nval

\* C10: union(x, y) on registered items of one representative (x = y too)
\* succeeds and leaves num_sets(), num_items(), the representatives, their
\* ranks and the partition as they were.
C10_UnionSameSetNoOp ==
    /\ [](\A x \in Registered : \A y \in Registered :
             union(Self, x, y).result = "Ok")
    /\ [][ ( /\ Returned("union", "Ok")
             /\ ReprOf(Self, last'.x) = ReprOf(Self, last'.y) ) =>
             /\ num_sets(SelfNext).nval = num_sets(Self).nval
             /\ num_items(SelfNext).nval = num_items(Self).nval
             /\ Representatives(SelfNext) = Representatives(Self)
             /\ \A r \in Representatives(Self) : nodes'[r].rank = nodes[r].rank
             /\ SelfNext = Self \/ PartitionOf(SelfNext) = PartitionOf(Self)
             /\ item_to_id' = item_to_id /\ next_id' = next_id ]_vars

\* A union of two different items has succeeded without changing the number
\* of blocks, in a set of three or more.
C10_Witness ==
    /\ last.op = "union" /\ last.result = "Ok" /\ last.x # last.y
    /\ last.blocks = Cardinality(part)
    /\ set_size(Self, last.x).nval >= 3

\* C11: a same_set or set_size call rewrites nothing but parent fields of
\* nodes that are not representatives: item_to_id, next_id, every rank, the
\* representatives and every item's representative stay as they were, and the
\* same query made again returns the same result; contains, num_sets and
\* num_items leave every field as it was.
C11_QueriesKeepObservations ==
    /\ [](\A x \in Items : \A y \in Items :
             LET q == same_set(Self, x, y)
                 r == same_set(q.self, x, y)
             IN  r.result = q.result /\ r.bval = q.bval)
    /\ [](\A x \in Items :
             LET q == set_size(Self, x)
                 r == set_size(q.self, x)
             IN  r.result = q.result /\ r.nval = q.nval)
    /\ [][ last'.op \in {"same_set", "set_size"} =>
             /\ item_to_id' = item_to_id /\ next_id' = next_id
             /\ DOMAIN nodes' = DOMAIN nodes
             /\ \A k \in DOMAIN nodes :
                   /\ nodes'[k].rank = nodes[k].rank
                   /\ nodes'[k].item = nodes[k].item
                   /\ is_representative(nodes[k]) => nodes'[k] = nodes[k]
             /\ Representatives(SelfNext) = Representatives(Self)
             /\ \/ SelfNext = Self
                \/ \A x \in Registered : ReprOf(SelfNext, x) = ReprOf(Self, x)
         ]_vars
    /\ [][ last'.op \in {"contains", "num_sets", "num_items"} =>
             SelfNext = Self ]_vars

\* A same_set call has returned true for two different items of a set in
\* which a path has been compressed: a node that had a child when it was
\* linked (its rank is 2 or more) has no child any more.
C11_Witness ==
    /\ last.op = "same_set" /\ last.result = "Ok" /\ last.bval
    /\ last.x # last.y
    /\ \E m \in DOMAIN nodes :
          /\ ~is_representative(nodes[m])
          /\ nodes[m].rank >= 2
          /\ \A k \in DOMAIN nodes : k = m \/ nodes[k].parent # m
          /\ ReprOf(Self, last.x) = nodes[m].parent

\* The node reached from node id by n parent hops.
RECURSIVE Walk(_, _, _)
Walk(ns, id, n) == IF n = 0 THEN id ELSE Walk(ns, ns[id].parent, n - 1)

\* The nodes on the parent path that starts at node id.
PathFrom(ns, id) == {Walk(ns, id, n) : n \in 0..Cardinality(DOMAIN ns)}

\* The parent fields form a forest: every parent is a node, the path from a
\* node holds exactly one representative, which a walk as long as the number
\* of nodes has reached, and the only node that is its own parent on it.
IsForest(ns) ==
    /\ \A k \in DOMAIN ns : ns[k].parent \in DOMAIN ns
    /\ \A k \in DOMAIN ns :
          /\ is_representative(ns[Walk(ns, k, Cardinality(DOMAIN ns))])
          /\ Cardinality({r \in PathFrom(ns, k) : is_representative(ns[r])}) = 1
          /\ Cardinality(PathFrom(ns, k)) =
                1 + CHOOSE n \in 0..Cardinality(DOMAIN ns) :
                       /\ is_representative(ns[Walk(ns, k, n)])
                       /\ \A m \in 0..(n - 1) :
                             ~is_representative(ns[Walk(ns, k, m)])

\* C12: the parent fields form a forest: following parent from any node
\* reaches exactly one representative in finitely many hops and meets no
\* cycle but the representative's self-loop, so every find terminates.
C12_ParentsFormForest ==
    /\ IsForest(nodes)
    /\ \A k \in DOMAIN nodes :
          find_repr_id(nodes, k).repr = Walk(nodes, k, Cardinality(DOMAIN nodes))

\* A union has built a tree with a node two hops from its representative.
C12_Witness ==
    /\ last.op = "union" /\ last.result = "Ok"
    /\ \E k \in DOMAIN nodes : Depth(nodes, k) >= 2

\* C13 as stated: no rank decreases, and a rank changes only in a union, on
\* the root that the union re-parents under the other root, where it becomes
\* the sum of the two ranks.
C13_RankChangesOnLosingRoot ==
    [][ \A k \in DOMAIN nodes :
          /\ nodes'[k].rank >= nodes[k].rank
          /\ nodes'[k].rank # nodes[k].rank =>
                /\ Returned("union", "Ok")
                /\ is_representative(nodes[k])
                /\ ~is_representative(nodes'[k])
                /\ \E l \in DOMAIN nodes \ {k} :
                      /\ is_representative(nodes[l])
                      /\ nodes'[k].parent = l
                      /\ nodes'[k].rank = nodes[k].rank + nodes[l].rank ]_vars

\* C13, amended: no rank decreases, and a rank changes only in a union, on
\* the root that survives (the one the other root is re-parented under),
\* where it becomes the sum of the two ranks; the re-parented root keeps its
\* rank.
C13_RankChangesOnSurvivingRoot ==
    [][ \A k \in DOMAIN nodes :
          /\ nodes'[k].rank >= nodes[k].rank
          /\ nodes'[k].rank # nodes[k].rank =>
                /\ Returned("union", "Ok")
                /\ is_representative(nodes[k])
                /\ is_representative(nodes'[k])
                /\ \E l \in DOMAIN nodes \ {k} :
                      /\ is_representative(nodes[l])
                      /\ nodes'[l].parent = k
                      /\ nodes'[l].rank = nodes[l].rank
                      /\ {k, l} = {ReprOf(Self, last'.x), ReprOf(Self, last'.y)}
                      /\ nodes'[k].rank = nodes[k].rank + nodes[l].rank ]_vars

\* A union has raised a rank to 3 or more; the root it re-parented has kept
\* a rank of 2 or more.
C13_Witness ==
    /\ last.op = "union" /\ last.result = "Ok"
    /\ \E k \in DOMAIN nodes : \E l \in DOMAIN nodes :
          /\ is_representative(nodes[k]) /\ nodes[k].rank >= 3
          /\ l # k /\ nodes[l].parent = k /\ nodes[l].rank >= 2

\* The node map after the two finds that same_set and union start with.
AfterFinds(s, x, y) ==
    find_repr_id(find_repr_id(s.nodes, s.item_to_id[x]).nodes,
                 s.item_to_id[y]).nodes

\* C14: when union(x, y) merges the sets of representatives rx and ry, rx is
\* re-parented under ry if rank(rx) < rank(ry), and ry under rx otherwise (the
\* tie too); the surviving root gets the sum of the two ranks, the other root
\* keeps its rank, and the link changes no other node.
C14_UnionLinksByRank ==
    [][ ( /\ Returned("union", "Ok")
          /\ ReprOf(Self, last'.x) # ReprOf(Self, last'.y) ) =>
          LET rx    == ReprOf(Self, last'.x)
              ry    == ReprOf(Self, last'.y)
              found == AfterFinds(Self, last'.x, last'.y)
              win   == IF nodes[rx].rank < nodes[ry].rank THEN ry ELSE rx
              lose  == IF nodes[rx].rank < nodes[ry].rank THEN rx ELSE ry
          IN  /\ DOMAIN nodes' = DOMAIN nodes
              /\ nodes'[lose].parent = win
              /\ nodes'[lose].rank = nodes[lose].rank
              /\ nodes'[win].parent = win
              /\ nodes'[win].rank = nodes[rx].rank + nodes[ry].rank
              /\ \A k \in DOMAIN nodes \ {win, lose} : nodes'[k] = found[k]
              /\ nodes'[lose].item = lose /\ nodes'[win].item = win ]_vars

\* A union has merged two sets of two on a tie: the root of four has a child
\* of rank 2 that is above y and not above x.
C14_Witness ==
    /\ last.op = "union" /\ last.result = "Ok"
    /\ last.blocks = Cardinality(part) + 1
    /\ nodes[ReprOf(Self, last.x)].rank = 4
    /\ \E l \in DOMAIN nodes :
          /\ nodes[l].rank = 2
          /\ nodes[l].parent = ReprOf(Self, last.x) /\ nodes[l].parent # l
          /\ l \in PathFrom(nodes, item_to_id[last.y])
          /\ l \notin PathFrom(nodes, item_to_id[last.x])

\* What a find started at node id of node map ns leaves (into): the nodes on
\* the path from id point at the root, which is the root of before, and
\* every other field is as it was.
Compressed(ns, id, into) ==
    LET root == Walk(ns, id, Cardinality(DOMAIN ns))
    IN  /\ DOMAIN into = DOMAIN ns
        /\ is_representative(ns[root]) /\ into[root] = ns[root]
        /\ \A k \in PathFrom(ns, id) \ {root} :
              into[k] = [ns[k] EXCEPT !.parent = root]
        /\ \A k \in DOMAIN ns \ PathFrom(ns, id) : into[k] = ns[k]

\* The nodes from id up to its root, the root included, in a forest.
RECURSIVE Ancestors(_, _)
Ancestors(ns, id) ==
    IF is_representative(ns[id]) THEN {id}
    ELSE {id} \cup Ancestors(ns, ns[id].parent)

\* What finds started at the nodes ids leave (into): each node on one of
\* their paths points at the root of its path, and every other field is as
\* it was.
CompressedFrom(ns, ids, into) ==
    LET paths == UNION {Ancestors(ns, id) : id \in ids}
    IN  /\ DOMAIN into = DOMAIN ns
        /\ \A k \in DOMAIN ns :
              into[k] = IF k \in paths
                        THEN [ns[k] EXCEPT !.parent =
                                 CHOOSE r \in Ancestors(ns, k) :
                                    is_representative(ns[r])]
                        ELSE ns[k]

\* C15: a find started at a node returns the root of its path and leaves
\* every node of the path that is not the root pointing at that root, the
\* root the same node as before, and the nodes off the path as they were;
\* a set_size call leaves the structure so for its argument, a same_set call
\* for its two arguments.
C15_FullPathCompression ==
    /\ [](\A k \in DOMAIN nodes :
             LET f == find_repr_id(nodes, k)
             IN  /\ f.repr = Walk(nodes, k, Cardinality(DOMAIN nodes))
                 /\ Compressed(nodes, k, f.nodes))
    /\ [][ Returned("set_size", "Ok") =>
             CompressedFrom(nodes, {item_to_id[last'.x]}, nodes') ]_vars
    /\ [][ Returned("same_set", "Ok") =>
             CompressedFrom(nodes, {item_to_id[last'.x], item_to_id[last'.y]},
                            nodes') ]_vars

\* After a set_size call its argument is one hop from the root of a set of
\* four in which a path has been compressed: a node that had a child when it
\* was linked has none now.
C15_Witness ==
    /\ last.op = "set_size" /\ last.result = "Ok" /\ last.nval = 4
    /\ Depth(nodes, item_to_id[last.x]) = 1
    /\ nodes[item_to_id[last.x]].rank = 1
    /\ \E m \in DOMAIN nodes :
          /\ ~is_representative(nodes[m])
          /\ nodes[m].rank >= 2
          /\ \A k \in DOMAIN nodes : k = m \/ nodes[k].parent # m

\* C16 as stated: once a find has run from an item, the item's node is a
\* single hop from its set's representative in every later state; here for
\* the state right after the find and the state one further operation later.
C16_SingleHopInEveryLaterState ==
    [][ /\ (Returned("set_size", "Ok") \/ Returned("same_set", "Ok"))
              => Depth(nodes', item_to_id[last'.x]) <= 1
        /\ (last.op \in {"set_size", "same_set"} /\ last.result = "Ok")
              => Depth(nodes', item_to_id[last.x]) <= 1 ]_vars

\* C16: a find from an item leaves the item's node, and with it every node
\* of the compressed path, a single hop from the root; a node that is a
\* single hop from its root stays so through every operation that leaves
\* that root a representative, and is two hops from the new representative
\* after a union that re-parents its root.
C16_SingleHopWhileRootSurvives ==
    /\ [][ Returned("set_size", "Ok") =>
             \A k \in Ancestors(nodes, item_to_id[last'.x]) :
                Depth(nodes', k) <= 1 ]_vars
    /\ [][ Returned("same_set", "Ok") =>
             \A k \in Ancestors(nodes, item_to_id[last'.x])
                         \cup Ancestors(nodes, item_to_id[last'.y]) :
                Depth(nodes', k) <= 1 ]_vars
    /\ [][ \/ nodes' = nodes
           \/ \A k \in DOMAIN nodes :
                 Depth(nodes, k) <= 1 =>
                    LET root == nodes[k].parent
                    IN  IF is_representative(nodes'[root])
                        THEN nodes'[k].parent = root
                        ELSE /\ Returned("union", "Ok")
                             /\ Depth(nodes', k) = Depth(nodes, k) + 1 ]_vars

\* A same_set call has compressed a path: its first argument is a leaf one
\* hop from the root, its second a node that had a child when it was linked
\* and has none now, one hop from the same root.
C16_Witness ==
    /\ last.op = "same_set" /\ last.result = "Ok" /\ last.bval
    /\ LET xid == item_to_id[last.x]
           yid == item_to_id[last.y]
       IN  /\ Depth(nodes, xid) = 1 /\ nodes[xid].rank = 1
           /\ Depth(nodes, yid) = 1 /\ nodes[yid].rank >= 2
           /\ nodes[xid].parent = nodes[yid].parent
           /\ \A k \in DOMAIN nodes : nodes[k].parent # yid

\* C19: the registry is consistent in every state: item_to_id gives each
\* registered item one id and distinct items distinct ids; the ids in use are
\* 0 .. next_id - 1 and are the keys of the node map, so num_items is the
\* number of nodes; a node's item field is its key; a node's parent is a key
\* of the node map; and no step removes a node or changes an item's id.
C19_RegistryConsistent ==
    /\ [](/\ \A x \in Registered : \A y \in Registered :
                item_to_id[x] = item_to_id[y] => x = y
          /\ {item_to_id[x] : x \in Registered} = 0..(next_id - 1)
          /\ DOMAIN nodes = 0..(next_id - 1)
          /\ num_items(Self).nval = Cardinality(DOMAIN nodes)
          /\ \A k \in DOMAIN nodes :
                nodes[k].item = k /\ nodes[k].parent \in DOMAIN nodes)
    /\ [][ /\ DOMAIN nodes \subseteq DOMAIN nodes'
           /\ DOMAIN item_to_id \subseteq DOMAIN item_to_id'
           /\ \A x \in DOMAIN item_to_id : item_to_id'[x] = item_to_id[x]
           /\ next_id' >= next_id ]_vars

\* Every item that may be registered is, and a make_set call on one of them
\* has just been refused: the registry holds MaxItems nodes.
C19_Witness ==
    /\ last.op = "make_set" /\ last.result = "ItemExists"
    /\ next_id = MaxItems /\ Cardinality(DOMAIN nodes) = MaxItems
    /\ Cardinality(Registered) = MaxItems
    /\ \E k \in DOMAIN nodes : Depth(nodes, k) >= 2

\* 2 to the power n.
RECURSIVE Pow2(_)
Pow2(n) == IF n = 0 THEN 1 ELSE 2 * Pow2(n - 1)

\* The largest h with 2^h <= n, for n >= 1.
RECURSIVE Log2Floor(_)
Log2Floor(n) == IF n <= 1 THEN 0 ELSE 1 + Log2Floor(n \div 2)

\* The height of the tree of representative r: the largest number of parent
\* hops from a node of r's tree to r.
Height(ns, r) ==
    LET hops == {Depth(ns, k) : k \in {j \in DOMAIN ns : r \in Ancestors(ns, j)}}
    IN  CHOOSE h \in hops : \A g \in hops : g <= h

\* C20: in every state the rank of a representative is at least 2 to the
\* height of its tree, and so no node is more than floor(log2(num_items))
\* parent hops from its representative, which is the number of hops a find
\* from it follows.
C20_HeightIsLogarithmic ==
    /\ \A r \in DOMAIN nodes :
          is_representative(nodes[r]) =>
             nodes[r].rank >= Pow2(Height(nodes, r))
    /\ \A k \in DOMAIN nodes :
          Depth(nodes, k) <= Log2Floor(num_items(Self).nval)

\* A union has built a tree of height two on four items: the bound is met
\* with equality.
C20_Witness ==
    /\ last.op = "union" /\ last.result = "Ok"
    /\ last.blocks = Cardinality(part) + 1
    /\ \E r \in DOMAIN nodes :
          /\ is_representative(nodes[r])
          /\ Height(nodes, r) = 2
          /\ nodes[r].rank = 4

----------------------------------------------------------------------------
(* union, same_set and set_size one node-field access at a time *)

\* Number of items registered where two callers share the structure.
RaceItems == MaxItems - 1

\* Variant of set_parent: the node is made its own parent.
set_parent_to_self(ns, id, parent) == [ns EXCEPT ![id].parent = id]

\* Node::set_parent on node id of the map.
set_parent(ns, id, parent) == [ns EXCEPT ![id].parent = parent]

\* Variant of set_rank: the rank is not written.
set_rank_no_write(ns, id, rank) == ns

\* Node::set_rank on node id of the map.
set_rank(ns, id, rank) == [ns EXCEPT ![id].rank = rank]

\* The frame of caller p, and whether p is in no call.
Frame(p) == run.frame[p]
Idle(p) == Frame(p).pc = "idle"

\* Caller p's frame becomes f; a call that begins while another is in flight
\* overlaps it.
SetFrame(p, f) ==
    run' = [frame      |-> [run.frame EXCEPT ![p] = f],
            overlapped |-> \/ run.overlapped
                           \/ /\ Idle(p)
                              /\ \E q \in Threads \ {p} : ~Idle(q)]

\* A call begins: both lookups in item_to_id succeed, and find_repr_id is
\* entered with the id of the first argument.
Enter(op, x, y) ==
    [IdleFrame EXCEPT !.op = op, !.pc = "find", !.x = x, !.y = y,
                      !.stack = <<item_to_id[x]>>]

\* The outermost find_repr_inner activation of frame f has returned repr: the
\* code that follows the find, up to its next node-field access.
Found(f, repr) ==
    IF f.arg = "x"
    THEN IF f.op = "set_size"
         THEN [f EXCEPT !.pc = "rank", !.stack = <<>>, !.repr = repr]
         ELSE [f EXCEPT !.pc = "find", !.arg = "y", !.repr = 0,
                        !.x_repr = repr, !.stack = <<item_to_id[f.y]>>]
    ELSE IF f.op = "same_set" \/ f.x_repr = repr
         THEN IdleFrame
         ELSE [f EXCEPT !.pc = "rank_sum_x", !.stack = <<>>, !.repr = repr]

\* An activation of find_repr_inner has returned repr to the one below it on
\* the stack, or to the caller of the find.
Returned_to(f, repr) ==
    LET rest == SubSeq(f.stack, 1, Len(f.stack) - 1)
    IN  IF rest = <<>> THEN Found(f, repr)
        ELSE [f EXCEPT !.pc = "unwind", !.stack = rest, !.repr = repr]

\* The partition after caller p's frame becomes f: a union that returns Ok
\* has joined the sets of its arguments.
Joined(p, f) ==
    IF Frame(p).op = "union" /\ f.pc = "idle"
    THEN Join(part, Frame(p).x, Frame(p).y)
    ELSE part

\* make_set of the next item, while no call is in flight.
RegisterItem(cap) ==
    /\ \A p \in Threads : Idle(p)
    /\ \E item \in 1..cap :
          /\ item = Cardinality(DOMAIN item_to_id) + 1
          /\ LET r == make_set(Self, item)
             IN  /\ nodes' = r.self.nodes
                 /\ item_to_id' = r.self.item_to_id
                 /\ next_id' = r.self.next_id
                 /\ part' = part \cup {{item}}
    /\ UNCHANGED <<last, run>>

\* The calls considered: calls begin until two have been in flight together,
\* and of the callers of an overlap the first to begin is the lowest.
MayBegin(p) ==
    /\ Idle(p)
    /\ ~run.overlapped
    /\ \A q \in Threads : q < p => ~Idle(q)

\* Caller p calls union(x, y), same_set(x, y) or set_size(x) on registered
\* items.
BeginUnion(p) ==
    /\ MayBegin(p)
    /\ \E x \in DOMAIN item_to_id, y \in DOMAIN item_to_id :
          SetFrame(p, Enter("union", x, y))
    /\ UNCHANGED <<nodes, item_to_id, next_id, part, last>>

BeginSameSet(p) ==
    /\ MayBegin(p)
    /\ \E x \in DOMAIN item_to_id, y \in DOMAIN item_to_id :
          SetFrame(p, Enter("same_set", x, y))
    /\ UNCHANGED <<nodes, item_to_id, next_id, part, last>>

BeginSetSize(p) ==
    /\ MayBegin(p)
    /\ \E x \in DOMAIN item_to_id : SetFrame(p, Enter("set_size", x, x))
    /\ UNCHANGED <<nodes, item_to_id, next_id, part, last>>

\* find_repr_inner, line 118: node.is_representative() reads the parent of
\* the activation's node; a representative is returned.
FindTest(p) ==
    LET f  == Frame(p)
        id == f.stack[Len(f.stack)]
        g  == IF is_representative(nodes[id])
              THEN Returned_to(f, nodes[id].item)
              ELSE [f EXCEPT !.pc = "parent"]
    IN  /\ f.pc = "find"
        /\ SetFrame(p, g)
        /\ part' = Joined(p, g)
        /\ UNCHANGED <<nodes, item_to_id, next_id, last>>

\* find_repr_inner, lines 121-122: node.parent() is read and find_repr_inner
\* is entered with that node, while the call stack has room.
FindParent(p) ==
    LET f  == Frame(p)
        id == f.stack[Len(f.stack)]
    IN  /\ f.pc = "parent"
        /\ Len(f.stack) <= Cardinality(DOMAIN nodes)
        /\ SetFrame(p, [f EXCEPT !.pc = "find",
                                 !.stack = Append(f.stack, nodes[id].parent)])
        /\ UNCHANGED <<nodes, item_to_id, next_id, part, last>>

\* find_repr_inner, lines 123-124: the activation writes the representative
\* it was returned into its node's parent and returns it.
FindUnwind(p) ==
    LET f  == Frame(p)
        id == f.stack[Len(f.stack)]
        g  == Returned_to(f, f.repr)
    IN  /\ f.pc = "unwind"
        /\ nodes' = set_parent(nodes, id, f.repr)
        /\ SetFrame(p, g)
        /\ part' = Joined(p, g)
        /\ UNCHANGED <<item_to_id, next_id, last>>

\* set_size, lines 40-41: the rank of the representative is read and
\* returned.
SetSizeRank(p) ==
    /\ Frame(p).pc = "rank"
    /\ SetFrame(p, IdleFrame)
    /\ UNCHANGED <<nodes, item_to_id, next_id, part, last>>

\* union, line 93: x_node.rank() is read for rank_sum.
UnionRankSumX(p) ==
    LET f == Frame(p)
    IN  /\ f.pc = "rank_sum_x"
        /\ SetFrame(p, [f EXCEPT !.pc = "rank_sum_y",
                                 !.rank_sum = nodes[f.x_repr].rank])
        /\ UNCHANGED <<nodes, item_to_id, next_id, part, last>>

\* union, line 93: y_node.rank() is read and added.
UnionRankSumY(p) ==
    LET f == Frame(p)
    IN  /\ f.pc = "rank_sum_y"
        /\ SetFrame(p, [f EXCEPT !.pc = "cmp_x",
                                 !.rank_sum = f.rank_sum + nodes[f.repr].rank])
        /\ UNCHANGED <<nodes, item_to_id, next_id, part, last>>

\* union, line 95: x_node.rank() is read for the comparison.
UnionCmpX(p) ==
    LET f == Frame(p)
    IN  /\ f.pc = "cmp_x"
        /\ SetFrame(p, [f EXCEPT !.pc = "cmp_y", !.cmp = nodes[f.x_repr].rank])
        /\ UNCHANGED <<nodes, item_to_id, next_id, part, last>>

\* union, line 95: y_node.rank() is read and compared.
UnionCmpY(p) ==
    LET f == Frame(p)
    IN  /\ f.pc = "cmp_y"
        /\ SetFrame(p, [f EXCEPT !.pc = "set_parent", !.cmp = 0,
                                 !.less = f.cmp < nodes[f.repr].rank])
        /\ UNCHANGED <<nodes, item_to_id, next_id, part, last>>

\* union, lines 96 and 99: the root of smaller rank is put under the other.
UnionSetParent(p) ==
    LET f == Frame(p)
    IN  /\ f.pc = "set_parent"
        /\ nodes' = IF f.less THEN set_parent(nodes, f.x_repr, f.repr)
                              ELSE set_parent(nodes, f.repr, f.x_repr)
        /\ SetFrame(p, [f EXCEPT !.pc = "set_rank"])
        /\ UNCHANGED <<item_to_id, next_id, part, last>>

\* union, lines 97 and 100: the other root gets rank_sum, and union returns.
UnionSetRank(p) ==
    LET f == Frame(p)
    IN  /\ f.pc = "set_rank"
        /\ nodes' = IF f.less THEN set_rank(nodes, f.repr, f.rank_sum)
                              ELSE set_rank(nodes, f.x_repr, f.rank_sum)
        /\ SetFrame(p, IdleFrame)
        /\ part' = Joined(p, IdleFrame)
        /\ UNCHANGED <<item_to_id, next_id, last>>

\* One node-field access, or the beginning of a call, by caller p.
StepOf(p) ==
    \/ BeginUnion(p)
    \/ BeginSameSet(p)
    \/ BeginSetSize(p)
    \/ FindTest(p)
    \/ FindParent(p)
    \/ FindUnwind(p)
    \/ SetSizeRank(p)
    \/ UnionRankSumX(p)
    \/ UnionRankSumY(p)
    \/ UnionCmpX(p)
    \/ UnionCmpY(p)
    \/ UnionSetParent(p)
    \/ UnionSetRank(p)

\* One caller: the calls are serialized, and run access by access.
NextSteps ==
    \/ RegisterItem(MaxItems)
    \/ \E p \in {1} : StepOf(p)

SpecSteps == Init /\ [][NextSteps]_vars

\* Two callers whose calls interleave access by access.
NextRace ==
    \/ RegisterItem(RaceItems)
    \/ \E p \in Threads : StepOf(p)

SpecRace == Init /\ [][NextRace]_vars

----------------------------------------------------------------------------
(* Properties of the calls run access by access *)

\* The representative node id reaches by following parents, where every node
\* reaches one.
Root(ns, id) == Walk(ns, id, Cardinality(DOMAIN ns))

\* The places of find_repr_inner in a frame.
InFind(f) == f.pc \in {"find", "parent", "unwind"}

\* C17: with the calls serialized and run one field access at a time, the
\* parents form a forest in which every node reaches exactly one
\* representative in every state, the states between two writes included;
\* no step of a find changes the representative of any node; each write of
\* the unwinding find is to a node whose parent already points at the root
\* (the innermost activation writes first) and points it at that root; and
\* union's set_parent re-parents one root under the other and changes
\* nothing else, its set_rank changes the rank of the surviving root only.
C17_WritesKeepForest ==
    /\ [] IsForest(nodes)
    /\ [][ \A p \in Threads :
              InFind(Frame(p)) =>
                 /\ DOMAIN nodes' = DOMAIN nodes
                 /\ \A k \in DOMAIN nodes :
                       /\ Root(nodes', k) = Root(nodes, k)
                       /\ nodes'[k].rank = nodes[k].rank ]_vars
    /\ [][ \A p \in Threads :
              Frame(p).pc = "unwind" =>
                 LET id == Frame(p).stack[Len(Frame(p).stack)]
                 IN  /\ Depth(nodes, nodes[id].parent) <= 1
                     /\ nodes' = [nodes EXCEPT ![id].parent = Root(nodes, id)]
         ]_vars
    /\ [][ \A p \in Threads :
              Frame(p).pc = "set_parent" =>
                 \E win \in DOMAIN nodes, lose \in DOMAIN nodes :
                    /\ win # lose
                    /\ is_representative(nodes[win])
                    /\ is_representative(nodes[lose])
                    /\ nodes[lose].rank <= nodes[win].rank
                    /\ nodes' = [nodes EXCEPT ![lose].parent = win]
                    /\ Frame(p)'.pc = "set_rank" ]_vars
    /\ [][ \A p \in Threads :
              Frame(p).pc = "set_rank" =>
                 \E win \in DOMAIN nodes :
                    /\ is_representative(nodes[win])
                    /\ nodes' = [nodes EXCEPT ![win].rank =
                          Cardinality({k \in DOMAIN nodes :
                                          Root(nodes, k) = win})] ]_vars

\* A find is between two of its writes: the node its argument pointed at has
\* been written and is one hop from the root, the argument's node is still
\* two hops away and is the next to be written.
C17_Witness ==
    \E p \in Threads :
       LET f == Frame(p)
       IN  /\ f.pc = "unwind" /\ Len(f.stack) = 1
           /\ Depth(nodes, f.stack[1]) = 2
           /\ nodes[nodes[f.stack[1]].parent].parent = f.repr
           /\ is_representative(nodes[f.repr])

\* The structure is as a serialized history leaves it: a forest, the ranks
\* of the representatives add up to the number of items, and two items have
\* the same representative exactly when unions have joined them.
Sane ==
    /\ IsForest(nodes)
    /\ SumRank(nodes, {k \in DOMAIN nodes : is_representative(nodes[k])})
          = Cardinality(DOMAIN item_to_id)
    /\ {{x \in DOMAIN item_to_id :
            Root(nodes, item_to_id[x]) = Root(nodes, item_to_id[y])} :
          y \in DOMAIN item_to_id} = part

\* C18: as long as no two calls have been in flight together, the parents
\* form a forest in every state and the structure is sane whenever no call
\* is in flight; the state the witness describes, reached by two interleaved
\* unions, is not sane.
C18_SerializedCallsKeepInvariants ==
    ~run.overlapped =>
       /\ IsForest(nodes)
       /\ (\A p \in Threads : Idle(p)) => Sane

\* Two calls have interleaved and returned: the parents form a forest, but
\* the ranks of the representatives do not add up to the number of items and
\* a set that a union joined is in two parts.
C18_Witness ==
    /\ run.overlapped
    /\ \A p \in Threads : Idle(p)
    /\ IsForest(nodes)
    /\ SumRank(nodes, {k \in DOMAIN nodes : is_representative(nodes[k])})
          # Cardinality(DOMAIN item_to_id)
    /\ Cardinality(part) <
          Cardinality({k \in DOMAIN nodes : is_representative(nodes[k])})

====
